---- MODULE Spec2Model ----
(***************************************************************************)
(* SvExtrudeSeparateNode.process (nodes/modifier_change/extrude_separate)  *)
(* as a state machine: the node's sockets, properties and input data, the  *)
(* data held by its output sockets, and the process() handler.             *)
(*                                                                         *)
(* Geometry is symbolic.  A vertex position is a record                    *)
(*   [src |-> index of the input vertex it was copied from,                *)
(*    xf  |-> the sequence of bmesh operations applied to it],             *)
(* so two positions are equal exactly when they come from the same input   *)
(* vertex through the same operations.  Vertex indices are 0-based as in   *)
(* the source; position v of a mesh is verts[v + 1].                       *)
(***************************************************************************)
EXTENDS Integers, Sequences, FiniteSets, TLC

\* Bounds of the explored inputs.
MaxFaces == 2
MaxBatch == 2

\* Face tags of the 'mask' layer.
MASK == 0
OUT == 1
\* IN of the source (a reserved word here).
IN_ == 2

MASK_MEANING(t) ==
    CASE t = MASK -> "mask"
      [] t = OUT -> "out"
      [] t = IN_ -> "in"

InputSockets == {"Vertices", "Polygons"}
OutputSockets == {"Vertices", "Edges", "Polygons", "ExtrudedPolys", "OtherPolys", "Mask"}
mask_modes == {"NOEXTRUDE", "NOTRANSFORM"}
extrude_modes == {"NORMAL", "MATRIX"}
mask_type_items == {"mask", "out", "in"}

----------------------------------------------------------------------------
\* Generic sequence helpers.

Min(a, b) == IF a < b THEN a ELSE b

Range(s) == {s[i] : i \in 1..Len(s)}

\* Sequences over S of length lo..hi.
SeqsOf(S, lo, hi) == UNION {[1..n -> S] : n \in lo..hi}

----------------------------------------------------------------------------
\* sverchok.data_structure

\* fullList(l, count): extend l in place with its last element up to count.
\* l[-1] of an empty list raises IndexError.
fullListFails(l, count) == Len(l) < count /\ Len(l) = 0

fullList(l, count) ==
    IF Len(l) >= count THEN l
    ELSE l \o [i \in 1..(count - Len(l)) |-> l[Len(l)]]

\* repeat_last, cut at n items: an empty list yields nothing.
repeat_last(l, n) ==
    IF Len(l) = 0 THEN <<>>
    ELSE [i \in 1..n |-> IF i <= Len(l) THEN l[i] ELSE l[Len(l)]]

\* match_long_repeat over the seven parallel lists, read back item by item
\* (zip(*meshes)): the batch is as long as the shortest matched list.
match_long_repeat(lsts) ==
    LET max_l == CHOOSE m \in {Len(lsts[i]) : i \in DOMAIN lsts} :
                     \A i \in DOMAIN lsts : Len(lsts[i]) <= m
        tmp == [i \in DOMAIN lsts |-> repeat_last(lsts[i], max_l)]
        n == CHOOSE m \in {Len(tmp[i]) : i \in DOMAIN tmp} :
                 \A i \in DOMAIN tmp : m <= Len(tmp[i])
    IN [k \in 1..n |-> [i \in DOMAIN lsts |-> tmp[i][k]]]

----------------------------------------------------------------------------
\* bmesh

\* Add the edge a-b unless the mesh has it already (in either direction).
AddEdge(edges, a, b) ==
    IF \E i \in 1..Len(edges) : edges[i] = <<a, b>> \/ edges[i] = <<b, a>>
    THEN edges
    ELSE Append(edges, <<a, b>>)

RECURSIVE AddLoopEdgesFrom(_, _, _)
AddLoopEdgesFrom(edges, loop, j) ==
    IF j > Len(loop) THEN edges
    ELSE AddLoopEdgesFrom(AddEdge(edges, loop[j], loop[(j % Len(loop)) + 1]), loop, j + 1)

\* Creating a face creates the edges of its loop that are missing.
AddLoopEdges(edges, loop) == AddLoopEdgesFrom(edges, loop, 1)

RECURSIVE AddFacesEdges(_, _, _)
AddFacesEdges(edges, loops, k) ==
    IF k > Len(loops) THEN edges
    ELSE AddFacesEdges(AddLoopEdges(edges, loops[k]), loops, k + 1)

\* bmesh_from_pydata followed by bm.faces.layers.int.new('mask'): every face
\* starts with layer value 0.  org and kind record where a face comes from
\* (the input face it derives from; "input", "cap" or "side").
bmesh_from_pydata(vertices, edges, faces) ==
    [verts |-> vertices,
     edges |-> AddFacesEdges(edges, faces, 1),
     faces |-> [k \in 1..Len(faces) |->
                   [loop |-> faces[k], mask_layer |-> 0, org |-> k - 1, kind |-> "input"]]]

\* fill_faces_layer(bm, masks, 'mask', int, OUT): faces whose mask is set get OUT.
fill_faces_layer(bm, masks, value) ==
    [bm EXCEPT !.faces =
        [k \in 1..Len(bm.faces) |->
            IF k <= Len(masks) /\ masks[k] # 0
            THEN [bm.faces[k] EXCEPT !.mask_layer = value]
            ELSE bm.faces[k]]]

\* One face of bmesh.ops.extrude_discrete_faces: BM_face_copy duplicates the
\* ring of vertices (same coordinates) and makes the cap on it, then one side
\* quad per loop edge joins the old boundary to the new ring.  Cap and sides
\* take the attributes (the 'mask' layer) of the face they come from.
ExtrudeOne(acc, f) ==
    LET m == Len(f.loop)
        base == Len(acc.verts)
        ring == [j \in 1..m |-> base + j - 1]
        cap == [loop |-> ring, mask_layer |-> f.mask_layer, org |-> f.org, kind |-> "cap"]
        side(j) == LET jn == (j % m) + 1
                   IN [loop |-> <<f.loop[jn], ring[jn], ring[j], f.loop[j]>>,
                       mask_layer |-> f.mask_layer, org |-> f.org, kind |-> "side"]
        sides == [j \in 1..m |-> side(j)]
        made == <<cap>> \o sides
    IN [verts |-> acc.verts \o [j \in 1..m |-> acc.verts[f.loop[j] + 1]],
        edges |-> AddFacesEdges(acc.edges, [i \in 1..Len(made) |-> made[i].loop], 1),
        made |-> acc.made \o made,
        caps |-> Append(acc.caps, Len(acc.made) + 1)]

RECURSIVE ExtrudeFrom(_, _, _, _)
ExtrudeFrom(acc, bm, sel, k) ==
    IF k > Len(sel) THEN acc
    ELSE ExtrudeFrom(ExtrudeOne(acc, bm.faces[sel[k]]), bm, sel, k + 1)

\* bmesh.ops.extrude_discrete_faces(bm, faces=sel)['faces'].  sel lists the
\* positions in bm.faces of the faces to extrude.  The extruded faces are
\* deleted (faces only), so the mesh keeps the other faces in their order,
\* followed by cap and sides of each extruded face; the result lists the
\* positions of the caps, one per face of sel, in the order of sel.
extrude_discrete_faces(bm, sel) ==
    LET acc == ExtrudeFrom([verts |-> bm.verts, edges |-> bm.edges, made |-> <<>>, caps |-> <<>>],
                           bm, sel, 1)
        kept == SelectSeq([k \in 1..Len(bm.faces) |-> k], LAMBDA k : k \notin Range(sel))
        keptFaces == [i \in 1..Len(kept) |-> bm.faces[kept[i]]]
    IN [bm |-> [verts |-> acc.verts, edges |-> acc.edges, faces |-> keptFaces \o acc.made],
        faces |-> [i \in 1..Len(acc.caps) |-> Len(kept) + acc.caps[i]]]

\* bmesh.ops.scale / translate / transform on verts: the operation is recorded
\* on each vertex of the list.  space names the face whose normal and centre
\* define the reference frame.
ApplyOp(bm, verts, op) ==
    [bm EXCEPT !.verts =
        [v \in 1..Len(bm.verts) |->
            IF (v - 1) \in Range(verts)
            THEN [bm.verts[v] EXCEPT !.xf = Append(@, op)]
            ELSE bm.verts[v]]]

\* pydata_from_bmesh: coordinates, edges and faces as vertex-index lists.
pydata_from_bmesh(bm) ==
    [vertices |-> bm.verts,
     edges |-> bm.edges,
     faces |-> [k \in 1..Len(bm.faces) |-> bm.faces[k].loop]]

----------------------------------------------------------------------------
\* The node.

VARIABLES
    in_linked,      \* input sockets among Vertices, Polygons that are linked
    out_linked,     \* output sockets that are linked
    props,          \* extrude_mode, mask_mode, mask_out_type, scale_socket_type
    inputs,         \* what sv_get returns on each input socket
    outputs,        \* data held by each output socket
    status,         \* "idle" (update pending) or how the last process() ended
    sv_set_calls,   \* output sockets the last process() called sv_set on
    before,         \* outputs as they were when the last process() started
    locals          \* loop locals of the last process(), one record per item

vars == <<in_linked, out_linked, props, inputs, outputs, status, sv_set_calls, before, locals>>

\* Faulty variant of get_out_mask: the extruded faces keep their tag.
get_out_mask_NoTag(bm, extruded_faces, mask_out_type) ==
    [bm |-> bm,
     mask |-> [k \in 1..Len(bm.faces) |->
                  IF MASK_MEANING(bm.faces[k].mask_layer) \in mask_out_type THEN 1 ELSE 0]]

\* get_out_mask: the extruded faces are tagged IN, then every face of the mesh
\* gives 1 if the name of its tag is selected in mask_out_type.
get_out_mask(bm, extruded_faces, mask_out_type) ==
    LET faces == [k \in 1..Len(bm.faces) |->
                     IF k \in Range(extruded_faces)
                     THEN [bm.faces[k] EXCEPT !.mask_layer = IN_]
                     ELSE bm.faces[k]]
    IN [bm |-> [bm EXCEPT !.faces = faces],
        mask |-> [k \in 1..Len(faces) |->
                     IF MASK_MEANING(faces[k].mask_layer) \in mask_out_type THEN 1 ELSE 0]]

\* Faulty variant of FacesToExtrude: the mask is ignored.
FacesToExtrude_All(bm, masks, mask_mode) == [k \in 1..Len(bm.faces) |-> k]

\* faces_to_extrude: positions in bm.faces.
FacesToExtrude(bm, masks, mask_mode) ==
    IF mask_mode = "NOEXTRUDE"
    THEN SelectSeq([k \in 1..Min(Len(bm.faces), Len(masks)) |-> k], LAMBDA k : masks[k] # 0)
    ELSE [k \in 1..Len(bm.faces) |-> k]

\* Faulty variant of FaceData: in NOEXTRUDE mode the parameters are taken at
\* the index the extruded face had in the input.
FaceData_ByFaceIndex(extruded_faces, masks, heights, scales, matrixes, mask_mode) ==
    LET sel == SelectSeq([k \in 1..Len(masks) |-> k], LAMBDA k : masks[k] # 0)
        at(k) == IF mask_mode = "NOEXTRUDE" THEN sel[k] ELSE k
        row(k) == [face |-> extruded_faces[k], height |-> heights[at(k)],
                   scale |-> scales[at(k)], matrix |-> matrixes[at(k)]]
    IN IF mask_mode = "NOEXTRUDE"
       THEN [k \in 1..Len(extruded_faces) |-> row(k)]
       ELSE LET idx == SelectSeq([k \in 1..Len(extruded_faces) |-> k], LAMBDA k : masks[k] # 0)
            IN [i \in 1..Len(idx) |-> row(idx[i])]

\* Faulty variant of FaceData: the mask filter of NOTRANSFORM mode is left out.
FaceData_NoMaskFilter(extruded_faces, masks, heights, scales, matrixes, mask_mode) ==
    [k \in 1..Len(extruded_faces) |->
        [face |-> extruded_faces[k], height |-> heights[k],
         scale |-> scales[k], matrix |-> matrixes[k]]]

\* face_data: zip of the extruded faces with the parameter lists, filtered by
\* the mask in NOTRANSFORM mode.
FaceData(extruded_faces, masks, heights, scales, matrixes, mask_mode) ==
    LET n == Min(Min(Len(extruded_faces), Len(heights)), Min(Len(scales), Len(matrixes)))
        row(k) == [face |-> extruded_faces[k], height |-> heights[k],
                   scale |-> scales[k], matrix |-> matrixes[k]]
    IN IF mask_mode = "NOEXTRUDE"
       THEN [k \in 1..n |-> row(k)]
       ELSE LET idx == SelectSeq([k \in 1..Min(n, Len(masks)) |-> k], LAMBDA k : masks[k] # 0)
            IN [i \in 1..Len(idx) |-> row(idx[i])]

\* Body of the loop over face_data for one face.
TransformFace(st, d, pr, collect) ==
    LET face == st.bm.faces[d.face]
        vec == IF pr.vector_in THEN d.scale ELSE <<d.scale, d.scale, d.scale>>
        space == face.org
        bm1 == IF pr.extrude_mode = "NORMAL"
               THEN ApplyOp(ApplyOp(st.bm, face.loop, <<"scale", vec, space>>),
                            face.loop, <<"translate", <<d.height>>, space>>)
               ELSE ApplyOp(st.bm, face.loop, <<"transform", <<d.matrix>>, space>>)
    IN [bm |-> bm1,
        new_extruded_faces |-> IF collect THEN Append(st.new_extruded_faces, face.loop)
                               ELSE st.new_extruded_faces]

RECURSIVE TransformFrom(_, _, _, _, _)
TransformFrom(st, face_data, k, pr, collect) ==
    IF k > Len(face_data) THEN st
    ELSE TransformFrom(TransformFace(st, face_data[k], pr, collect), face_data, k + 1, pr, collect)

\* An item fails when a parameter list is empty and the mesh has faces.
ItemFails(item) ==
    \/ fullListFails(item.heights, Len(item.faces))
    \/ fullListFails(item.scales, Len(item.faces))
    \/ fullListFails(item.matrixes, Len(item.faces))
    \/ fullListFails(item.masks, Len(item.faces))

\* Faulty variant of ResolvedMasks: a short mask is filled with zeros.
ResolvedMasks_ZeroFill(item) ==
    IF Len(item.masks) >= Len(item.faces) THEN item.masks
    ELSE item.masks \o [i \in 1..(Len(item.faces) - Len(item.masks)) |-> 0]

\* fullList(masks, len(faces))
ResolvedMasks(item) == fullList(item.masks, Len(item.faces))

\* Faulty variant of OtherFaces: the extruded faces are not taken out.
OtherFaces_NoFilter(new_faces, new_extruded_faces, linked_other_polygons) ==
    IF linked_other_polygons THEN new_faces ELSE <<>>

\* new_other_faces
OtherFaces(new_faces, new_extruded_faces, linked_other_polygons) ==
    IF linked_other_polygons
    THEN SelectSeq(new_faces, LAMBDA f : f \notin Range(new_extruded_faces))
    ELSE <<>>

\* Body of the loop over the batch for one item.
ProcessItem(item, pr, linked) ==
    LET linked_extruded_polygons == "ExtrudedPolys" \in linked
        linked_other_polygons == "OtherPolys" \in linked
        need_mask_out == "Mask" \in linked
        heights == fullList(item.heights, Len(item.faces))
        scales == fullList(item.scales, Len(item.faces))
        matrixes == fullList(item.matrixes, Len(item.faces))
        masks == ResolvedMasks(item)
        bm0 == fill_faces_layer(bmesh_from_pydata(item.vertices, item.edges, item.faces), masks, OUT)
        faces_to_extrude == FacesToExtrude(bm0, masks, pr.mask_mode)
        ex == extrude_discrete_faces(bm0, faces_to_extrude)
        face_data == FaceData(ex.faces, masks, heights, scales, matrixes, pr.mask_mode)
        st == TransformFrom([bm |-> ex.bm, new_extruded_faces |-> <<>>], face_data, 1, pr,
                            linked_extruded_polygons \/ linked_other_polygons)
        py == pydata_from_bmesh(st.bm)
        new_other_faces == OtherFaces(py.faces, st.new_extruded_faces, linked_other_polygons)
        om == IF need_mask_out THEN get_out_mask(st.bm, ex.faces, pr.mask_out_type)
              ELSE [bm |-> st.bm, mask |-> <<>>]
    IN [masks |-> masks, heights |-> heights, scales |-> scales, matrixes |-> matrixes,
        faces_to_extrude |-> faces_to_extrude,
        extruded_faces |-> ex.faces,
        face_data |-> face_data,
        bm_faces |-> om.bm.faces,
        new_vertices |-> py.vertices,
        new_edges |-> py.edges,
        new_faces |-> py.faces,
        new_extruded_faces |-> st.new_extruded_faces,
        new_other_faces |-> new_other_faces,
        new_mask |-> om.mask]

\* zip(*match_long_repeat([...])) as item records.  fullList extends a list in
\* place, so a list that match_long_repeat repeats reaches the later items
\* already extended; its leading entries, the only ones an item reads, are the
\* ones computed here.
Meshes(inp) ==
    LET m == match_long_repeat(inp)
    IN [k \in 1..Len(m) |->
           [vertices |-> m[k].vertices_s, edges |-> m[k].edges_s, faces |-> m[k].faces_s,
            masks |-> m[k].masks_s, heights |-> m[k].heights_s, scales |-> m[k].scales_s,
            matrixes |-> m[k].matrixes_s]]

\* Number of items the loop completes: all of them, or those before the first
\* one that raises.
Completed(meshes) ==
    IF \E k \in 1..Len(meshes) : ItemFails(meshes[k])
    THEN (CHOOSE k \in 1..Len(meshes) :
              ItemFails(meshes[k]) /\ \A j \in 1..(k - 1) : ~ItemFails(meshes[j])) - 1
    ELSE Len(meshes)

Data(d) == [has |-> TRUE, data |-> d]

NoData == [has |-> FALSE, data |-> <<>>]

\* The result list each output socket is set from.
ResultOf(s) ==
    CASE s = "Vertices" -> "new_vertices"
      [] s = "Edges" -> "new_edges"
      [] s = "Polygons" -> "new_faces"
      [] s = "ExtrudedPolys" -> "new_extruded_faces"
      [] s = "OtherPolys" -> "new_other_faces"
      [] s = "Mask" -> "new_mask"

\* Faulty variant of SocketsSet: Mask is set whether linked or not.
SocketsSet_All(linked) == OutputSockets

\* The sockets the sv_set calls that end process() are made on.
SocketsSet(linked) ==
    {"Vertices", "Edges", "Polygons", "ExtrudedPolys", "OtherPolys"}
        \cup (IF "Mask" \in linked THEN {"Mask"} ELSE {})

SetOutputs(old, res, linked) ==
    [s \in OutputSockets |->
        IF s \in SocketsSet(linked)
        THEN Data([k \in 1..Len(res) |-> res[k][ResultOf(s)]])
        ELSE old[s]]

\* Faulty variant of EntryGuards: the Polygons input is not looked at.
EntryGuards_VerticesOnly(inl, outl) == "Vertices" \in inl /\ outl # {}

\* The two early returns of process(): it goes on only when both required
\* inputs and at least one output are linked.
EntryGuards(inl, outl) ==
    /\ "Vertices" \in inl /\ "Polygons" \in inl
    /\ \E s \in OutputSockets : s \in outl

\* Faulty variant of Raised: the failure of an item is swallowed.
Raised_Swallowed(meshes, done) == FALSE

\* An item of the batch raised, which ends process() before any sv_set.
Raised(meshes, done) == done < Len(meshes)

\* process()
Process ==
    /\ status = "idle"
    /\ before' = outputs
    /\ IF ~EntryGuards(in_linked, out_linked)
       THEN /\ status' = "skipped"
            /\ locals' = <<>>
            /\ sv_set_calls' = {}
            /\ outputs' = outputs
       ELSE LET meshes == Meshes(inputs)
                done == Completed(meshes)
                res == [k \in 1..done |-> ProcessItem(meshes[k], props, out_linked)]
            IN /\ locals' = res
               /\ IF Raised(meshes, done)
                  THEN /\ status' = "failed"
                       /\ sv_set_calls' = {}
                       /\ outputs' = outputs
                  ELSE /\ status' = "done"
                       /\ sv_set_calls' = SocketsSet(out_linked)
                       /\ outputs' = SetOutputs(outputs, res, out_linked)
    /\ UNCHANGED <<in_linked, out_linked, props, inputs>>

----------------------------------------------------------------------------
\* Input data: a fan of n triangles around vertex 0, parameter lists whose
\* entries differ by position.

FanVertices(n) == IF n = 0 THEN <<>> ELSE [i \in 1..(n + 2) |-> [src |-> i - 1, xf |-> <<>>]]

FanFaces(n) == [k \in 1..n |-> <<0, k, k + 1>>]

MaskLists == SeqsOf({0, 1}, 0, MaxFaces)

Heights(p) == [i \in 1..p |-> 10 * i]

Scales(p, vector_in) == [i \in 1..p |-> IF vector_in THEN <<i + 1, i + 1, 1>> ELSE i + 1]

Matrixes(p) == [i \in 1..p |-> 100 + i]

Inputs(sizes, masks_s, p, vector_in) ==
    [vertices_s |-> [k \in 1..Len(sizes) |-> FanVertices(sizes[k])],
     edges_s |-> << <<>> >>,
     faces_s |-> [k \in 1..Len(sizes) |-> FanFaces(sizes[k])],
     masks_s |-> masks_s,
     heights_s |-> <<Heights(p)>>,
     scales_s |-> <<Scales(p, vector_in)>>,
     matrixes_s |-> <<Matrixes(p)>>]

DefaultProps ==
    [extrude_mode |-> "NORMAL", mask_mode |-> "NOEXTRUDE", mask_out_type |-> {"out"},
     vector_in |-> FALSE]

Props == [extrude_mode : extrude_modes, mask_mode : mask_modes,
          mask_out_type : SUBSET mask_type_items, vector_in : BOOLEAN]

\* State after construction and linking, before the first update.
Fresh ==
    /\ outputs = [s \in OutputSockets |-> NoData]
    /\ status = "idle"
    /\ sv_set_calls = {}
    /\ before = outputs
    /\ locals = <<>>

\* Any link state and mask mode over batches of up to MaxBatch meshes, the
\* other properties at their defaults; the parameter lists are empty or hold
\* one entry.
Init ==
    /\ in_linked \in SUBSET InputSockets
    /\ out_linked \in SUBSET OutputSockets
    /\ props \in {[DefaultProps EXCEPT !.mask_mode = mm] : mm \in mask_modes}
    /\ \E sizes \in SeqsOf(0..MaxFaces, 1, MaxBatch), p \in 0..1 :
           inputs = Inputs(sizes, << <<1>> >>, p, props.vector_in)
    /\ Fresh

\* Any properties, mask and parameter lists over one mesh, the inputs linked.
InitMesh ==
    /\ in_linked = InputSockets
    /\ out_linked \in SUBSET {"ExtrudedPolys", "OtherPolys", "Mask"}
    /\ props \in Props
    /\ \E n \in 0..MaxFaces, m \in MaskLists, p \in 0..MaxFaces :
           inputs = Inputs(<<n>>, <<m>>, p, props.vector_in)
    /\ Fresh

\* The user removes the link of an input socket; the tree update that follows
\* calls process().
Unlink ==
    /\ status # "idle"
    /\ \E s \in in_linked : in_linked' = in_linked \ {s}
    /\ status' = "idle"
    /\ UNCHANGED <<out_linked, props, inputs, outputs, sv_set_calls, before, locals>>

\* The nodes feeding Height, Scale and Matrix start to deliver empty lists; the
\* tree update that follows calls process().
EmptyParams ==
    /\ status = "done"
    /\ inputs.heights_s # << <<>> >>
    /\ inputs' = [inputs EXCEPT !.heights_s = << <<>> >>, !.scales_s = << <<>> >>,
                                !.matrixes_s = << <<>> >>]
    /\ status' = "idle"
    /\ UNCHANGED <<in_linked, out_linked, props, outputs, sv_set_calls, before, locals>>

Next == Process \/ Unlink \/ EmptyParams

Spec == Init /\ [][Next]_vars

NextMesh == Process

SpecMesh == InitMesh /\ [][NextMesh]_vars

----------------------------------------------------------------------------
\* Properties.

\* The batch the last process() iterated over.
Batch == Meshes(inputs)

\* C1: when process() is called with the Vertices or the Polygons input not
\* linked, or with no output linked, it ends without an error, calls sv_set on
\* no output socket and leaves the data of every output socket as it was.
C1_NoOpWhenNotLinked ==
    (status # "idle" /\ (~(InputSockets \subseteq in_linked) \/ out_linked = {}))
        => /\ status = "skipped"
           /\ sv_set_calls = {}
           /\ outputs = before

\* C1 happens: an earlier run left data on the outputs, then Polygons was
\* unlinked and process() ran again.
C1_Witness ==
    /\ status = "skipped"
    /\ "Vertices" \in in_linked /\ "Polygons" \notin in_linked
    /\ out_linked # {}
    /\ outputs["Polygons"].has /\ outputs["Polygons"].data # <<>>

\* C7 as stated: a run that passes the entry guards sets only linked outputs,
\* and builds the list of extruded cap loops only when ExtrudedPolys is linked.
C7_LazyOutputs_AsStated ==
    status = "done"
        => /\ sv_set_calls \subseteq out_linked
           /\ \A k \in 1..Len(locals) :
                  locals[k].new_extruded_faces # <<>> => "ExtrudedPolys" \in out_linked

\* C7 amended: a run that passes the entry guards always sets Vertices, Edges,
\* Polygons, ExtrudedPolys and OtherPolys, and sets Mask exactly when Mask is
\* linked; the cap loops are collected only when ExtrudedPolys or OtherPolys is
\* linked, the other faces only when OtherPolys is linked, the mask only when
\* Mask is linked.
C7_LazyOutputs ==
    status = "done"
        => /\ OutputSockets \ {"Mask"} \subseteq sv_set_calls
           /\ "Mask" \in sv_set_calls <=> "Mask" \in out_linked
           /\ "Mask" \notin out_linked => outputs["Mask"] = before["Mask"]
           /\ \A k \in 1..Len(locals) :
                  /\ locals[k].new_extruded_faces # <<>>
                         => ("ExtrudedPolys" \in out_linked \/ "OtherPolys" \in out_linked)
                  /\ locals[k].new_other_faces # <<>> => "OtherPolys" \in out_linked
                  /\ locals[k].new_mask # <<>> => "Mask" \in out_linked

\* C7 happens: only OtherPolys is linked, and the run sets the unlinked
\* ExtrudedPolys socket to a cap list it built for OtherPolys.
C7_Witness ==
    /\ status = "done"
    /\ out_linked = {"OtherPolys"}
    /\ "ExtrudedPolys" \in sv_set_calls
    /\ \E k \in 1..Len(locals) : outputs["ExtrudedPolys"].data[k] # <<>>

\* C10: when an item of the batch fails, no output socket is set and every
\* output keeps its data, whatever items were processed before; when no item
\* fails, every list that is emitted has one entry per batch item.
C10_AllOrNothing ==
    /\ status = "failed" => sv_set_calls = {} /\ outputs = before
    /\ status \in {"done", "failed"}
           => (status = "failed" <=> \E k \in 1..Len(Batch) : ItemFails(Batch[k]))
    /\ status = "done"
           => \A s \in sv_set_calls : outputs[s].has /\ Len(outputs[s].data) = Len(Batch)

\* C10 happens: an earlier run left data on the outputs; then the parameter
\* lists became empty, the first item (a mesh without faces) went through, the
\* second failed, and the outputs still hold the data of the earlier run.
C10_Witness ==
    /\ status = "failed"
    /\ Len(Batch) >= 2
    /\ Len(locals) >= 1
    /\ Batch[Len(locals) + 1].heights = <<>>
    /\ outputs["Polygons"].has /\ Len(outputs["Polygons"].data) = Len(Batch)

\* Entry i of a parameter list once broadcast: its own entry, or the last one.
BroadcastAt(l, i) == l[Min(i, Len(l))]

\* C8: a non-empty mask shorter than the face count resolves to the mask
\* followed by copies of its last element, and the faces it then marks are
\* the ones extruded in NOEXTRUDE mode; an empty mask against a mesh with faces
\* makes the item fail.
C8_MaskBroadcast ==
    status \in {"done", "failed"}
        => \A k \in 1..Len(Batch) :
               LET m == Batch[k].masks
                   n == Len(Batch[k].faces)
               IN /\ (m = <<>> /\ n > 0) => (status = "failed" /\ Len(locals) < k)
                  /\ (k <= Len(locals) /\ m # <<>> /\ Len(m) < n)
                         => /\ Len(locals[k].masks) = n
                            /\ \A i \in 1..n :
                                   locals[k].masks[i] = IF i <= Len(m) THEN m[i] ELSE m[Len(m)]
                            /\ props.mask_mode = "NOEXTRUDE"
                                   => \A i \in 1..n :
                                          i \in Range(locals[k].faces_to_extrude)
                                              <=> BroadcastAt(m, i) # 0

\* C8 happens: two faces with mask [1] resolve to [1, 1] and both are extruded.
C8_Witness ==
    /\ status = "done"
    /\ props.mask_mode = "NOEXTRUDE"
    /\ Len(Batch[1].faces) = 2 /\ Batch[1].masks = <<1>>
    /\ locals[1].masks = <<1, 1>>
    /\ Len(locals[1].extruded_faces) = 2

\* C4: in NOEXTRUDE mode a face whose resolved mask is 0 is not extruded, no
\* cap or side face derives from it, it is a face of the output with the same
\* vertex indices, and the output position of each of its vertices is the
\* input position.
C4_NoExtrudeUntouched ==
    (status = "done" /\ props.mask_mode = "NOEXTRUDE")
        => \A k \in 1..Len(locals) :
               \A i \in 1..Len(Batch[k].faces) :
                   locals[k].masks[i] = 0
                       => /\ i \notin Range(locals[k].faces_to_extrude)
                          /\ \A f \in Range(locals[k].bm_faces) :
                                 f.org = i - 1 => f.kind = "input"
                          /\ Batch[k].faces[i] \in Range(outputs["Polygons"].data[k])
                          /\ \A v \in Range(Batch[k].faces[i]) :
                                 outputs["Vertices"].data[k][v + 1] = Batch[k].vertices[v + 1]

\* C4 happens: of two faces sharing an edge the first is extruded and
\* transformed, the second is masked out.
C4_Witness ==
    /\ status = "done"
    /\ props.mask_mode = "NOEXTRUDE"
    /\ Len(Batch[1].faces) = 2
    /\ locals[1].masks = <<1, 0>>
    /\ \E v \in 1..Len(outputs["Vertices"].data[1]) : outputs["Vertices"].data[1][v].xf # <<>>

\* C5: in NOTRANSFORM mode there is one cap per input face, in face order; the
\* vertices of the cap of face i carry the transform of the extrude mode
\* (scale then translate, or the matrix) exactly when the mask of face i is
\* truthy, and otherwise stand where the vertices of face i stood.
C5_NoTransform ==
    (status = "done" /\ props.mask_mode = "NOTRANSFORM")
        => \A k \in 1..Len(locals) :
               LET n == Len(Batch[k].faces)
                   caps == {j \in 1..Len(locals[k].bm_faces) : locals[k].bm_faces[j].kind = "cap"}
               IN /\ Cardinality(caps) = n
                  /\ Len(locals[k].extruded_faces) = n
                  /\ \A i \in 1..n :
                         LET cap == locals[k].bm_faces[locals[k].extruded_faces[i]]
                         IN /\ cap.kind = "cap" /\ cap.org = i - 1
                            /\ \A j \in 1..Len(cap.loop) :
                                   LET pos == outputs["Vertices"].data[k][cap.loop[j] + 1]
                                       ops == [t \in 1..Len(pos.xf) |-> pos.xf[t][1]]
                                   IN IF locals[k].masks[i] # 0
                                      THEN ops = IF props.extrude_mode = "NORMAL"
                                                 THEN <<"scale", "translate">>
                                                 ELSE <<"transform">>
                                      ELSE pos = Batch[k].vertices[Batch[k].faces[i][j] + 1]

\* C5 happens: two faces, the first masked out, both extruded.
C5_Witness ==
    /\ status = "done"
    /\ props.mask_mode = "NOTRANSFORM"
    /\ Len(Batch[1].faces) = 2
    /\ locals[1].masks = <<0, 1>>
    /\ Len(locals[1].extruded_faces) = 2

\* The operations a cap of input face org carries after the transform step
\* with parameters h, s, mx.
ExpectedXf(h, s, mx, org) ==
    IF props.extrude_mode = "NORMAL"
    THEN << <<"scale", IF props.vector_in THEN s ELSE <<s, s, s>>, org>>,
            <<"translate", <<h>>, org>> >>
    ELSE << <<"transform", <<mx>>, org>> >>

\* C9: the c-th extruded face is transformed with entry c of the broadcast
\* heights, scales and matrixes.  In NOEXTRUDE mode the c-th extruded face is
\* the c-th face with a truthy mask; in NOTRANSFORM mode it is face c, and it
\* is transformed when its mask is truthy.
C9_PositionalParams ==
    status = "done"
        => \A k \in 1..Len(locals) :
               \A c \in 1..Len(locals[k].extruded_faces) :
                   LET cap == locals[k].bm_faces[locals[k].extruded_faces[c]]
                       i == cap.org + 1
                       masks == locals[k].masks
                       want == ExpectedXf(BroadcastAt(Batch[k].heights, c),
                                          BroadcastAt(Batch[k].scales, c),
                                          BroadcastAt(Batch[k].matrixes, c), cap.org)
                   IN /\ props.mask_mode = "NOEXTRUDE"
                          => /\ masks[i] # 0
                             /\ Cardinality({j \in 1..i : masks[j] # 0}) = c
                      /\ props.mask_mode = "NOTRANSFORM" => i = c
                      /\ (props.mask_mode = "NOEXTRUDE" \/ masks[i] # 0)
                             => \A v \in Range(cap.loop) :
                                    outputs["Vertices"].data[k][v + 1].xf = want

\* C9 happens: with mask [0, 1] and two heights, the only extruded face is the
\* second input face and it is moved by the first height.
C9_Witness ==
    /\ status = "done"
    /\ props.mask_mode = "NOEXTRUDE" /\ props.extrude_mode = "NORMAL"
    /\ locals[1].masks = <<0, 1>>
    /\ Len(Batch[1].heights) = 2 /\ Batch[1].heights[1] # Batch[1].heights[2]
    /\ Len(locals[1].extruded_faces) = 1
    /\ LET cap == locals[1].bm_faces[locals[1].extruded_faces[1]]
       IN /\ cap.org = 1
          /\ outputs["Vertices"].data[1][cap.loop[1] + 1].xf[2]
                 = <<"translate", <<Batch[1].heights[1]>>, 1>>

\* The faces of item k as sets of vertex-index loops.
FaceSet(socket, k) == Range(outputs[socket].data[k])

\* C3 as stated: whatever is linked, ExtrudedPolys and OtherPolys of a mesh
\* are disjoint and together make the faces of Polygons.
C3_Partition_AsStated ==
    status = "done"
        => \A k \in 1..Len(locals) :
               /\ FaceSet("ExtrudedPolys", k) \cap FaceSet("OtherPolys", k) = {}
               /\ FaceSet("ExtrudedPolys", k) \cup FaceSet("OtherPolys", k) = FaceSet("Polygons", k)

\* C3 amended: when the OtherPolys output is linked, ExtrudedPolys and
\* OtherPolys of a mesh are disjoint and together make the faces of Polygons.
C3_Partition ==
    (status = "done" /\ "OtherPolys" \in out_linked)
        => \A k \in 1..Len(locals) :
               /\ FaceSet("ExtrudedPolys", k) \cap FaceSet("OtherPolys", k) = {}
               /\ FaceSet("ExtrudedPolys", k) \cup FaceSet("OtherPolys", k) = FaceSet("Polygons", k)

\* C3 happens: OtherPolys is linked, ExtrudedPolys is not, and the mesh ends
\* with faces of both kinds.
C3_Witness ==
    /\ status = "done"
    /\ "OtherPolys" \in out_linked /\ "ExtrudedPolys" \notin out_linked
    /\ FaceSet("ExtrudedPolys", 1) # {}
    /\ FaceSet("OtherPolys", 1) # {}

\* C6: when ExtrudedPolys is linked it lists the vertex-index loop of every cap
\* the extrusion returned, in extrusion order, in both mask modes.
C6_ExtrudedPolysAllCaps ==
    (status = "done" /\ "ExtrudedPolys" \in out_linked)
        => \A k \in 1..Len(locals) :
               outputs["ExtrudedPolys"].data[k]
                   = [c \in 1..Len(locals[k].extruded_faces) |->
                         locals[k].bm_faces[locals[k].extruded_faces[c]].loop]

\* The emitted mask of item k gives 1 exactly for the faces whose tag name is
\* selected in mask_out_type.
MaskValuesFollowTags(k) ==
    /\ Len(outputs["Mask"].data[k]) = Len(locals[k].bm_faces)
    /\ \A j \in 1..Len(locals[k].bm_faces) :
           LET tag == locals[k].bm_faces[j].mask_layer
               name == IF tag = 2 THEN "in" ELSE IF tag = 1 THEN "out" ELSE "mask"
           IN outputs["Mask"].data[k][j] = IF name \in props.mask_out_type THEN 1 ELSE 0

\* C2 as stated: with Mask linked, a face of the final mesh is tagged IN if it
\* is a cap and MASK if the resolved mask of its input face was 0, and its
\* emitted value follows its tag.
C2_OutMask_AsStated ==
    (status = "done" /\ "Mask" \in out_linked)
        => \A k \in 1..Len(locals) :
               /\ \A f \in Range(locals[k].bm_faces) :
                      /\ f.kind = "cap" => f.mask_layer = 2
                      /\ locals[k].masks[f.org + 1] = 0 => f.mask_layer = 0
               /\ MaskValuesFollowTags(k)

\* C2 amended: with Mask linked, a face of the final mesh is tagged IN if it
\* is a cap, also when the resolved mask of its input face was 0 (NOTRANSFORM
\* mode), and MASK if it is not a cap and the resolved mask of its input face
\* was 0; its emitted value follows its tag.
C2_OutMask ==
    (status = "done" /\ "Mask" \in out_linked)
        => \A k \in 1..Len(locals) :
               /\ \A f \in Range(locals[k].bm_faces) :
                      /\ f.kind = "cap" => f.mask_layer = 2
                      /\ (f.kind # "cap" /\ locals[k].masks[f.org + 1] = 0) => f.mask_layer = 0
               /\ MaskValuesFollowTags(k)

\* C2 happens: in NOTRANSFORM mode a masked-out face gives a cap tagged IN and
\* side faces tagged MASK, and the selection {mask, in} gives 1 for all of them.
C2_Witness ==
    /\ status = "done"
    /\ "Mask" \in out_linked
    /\ props.mask_mode = "NOTRANSFORM"
    /\ props.mask_out_type = {"mask", "in"}
    /\ Batch[1].masks = <<0>> /\ Len(Batch[1].faces) = 1
    /\ outputs["Mask"].data[1] = <<1, 1, 1, 1>>

====
